---- MODULE Spec2Model ----
(***************************************************************************)
(* A model of the syzgydb Python clients:                                  *)
(*   - the bulk ingestion script processTweets of src/syzgydb_client.py    *)
(*     together with the SyzgyDBClient it drives          (Spec),          *)
(*   - the request bodies built by Document.to_dict,                       *)
(*     Collection.insert_documents, SyzgyDBClient.insert_record and        *)
(*     Collection.search                                  (SpecPayload),   *)
(*   - the calls of SyzgyClient / Collection / SyzgyDBClient against a     *)
(*     collection held by the remote service              (SpecFacade).    *)
(***************************************************************************)
EXTENDS Integers, Sequences, FiniteSets, TLC

VARIABLES
    \* ---- processTweets (src/syzgydb_client.py) ----
    source,          \* the csv file: one row per line, a row is its 6th column
    batch_size,      \* the local batch_size
    pc,              \* position of the run in processTweets
    document_count,  \* the local document_count
    skipped,         \* iterations done of `for _ in range(document_count)`
    pos,             \* rows the csv reader has consumed
    line_num,        \* csv_reader.line_num
    records,         \* the local list records
    recRows,         \* (history) source index of each pending record
    calls,           \* (history) the batches passed to insert_records in this run
    failedAt,        \* (history) index in calls of the first insert of this run
                     \* that got a non-200 response, 0 when there is none
    startCount,      \* (history) the collection's document_count at run start
    stored,          \* the service: documents held by collection "tweets2"
    sent,            \* (history) <<row, id, skip offset of the run>> of every
                     \* document sent, over all runs
    \* ---- request bodies (src/python_client/syzgy, src/syzgydb_client.py) ----
    op,              \* the method that built the request, "none" before any
    args,            \* the arguments it was called with
    request,         \* the request it handed to the HTTP library
    \* ---- calls against the service (syzgy/__init__.py, syzgydb_client.py) ----
    srv,             \* the service: collection name -> its description
    nameKey,         \* the key under which the service reports a collection's name
    prev,            \* the call before the last one
    last             \* the last call: requests issued, response, outcome

varsIngest == <<source, batch_size, pc, document_count, skipped, pos, line_num,
                records, recRows, calls, failedAt, startCount, stored, sent>>

varsPayload == <<op, args, request>>

varsFacade == <<srv, nameKey, prev, last>>

vars == <<varsIngest, varsPayload, varsFacade>>

\* ------------------------------------------------------------------ bounds
MaxRows == 3
MaxBatch == 3
MaxDocsPerCall == 2
MaxStored == 1

Texts == {"a", "b"}

\* ------------------------------------------------------------ small helpers
RECURSIVE Flatten(_)
Flatten(ss) == IF ss = <<>> THEN <<>> ELSE Head(ss) \o Flatten(Tail(ss))

SeqsUpTo(S, n) == UNION {[1..k -> S] : k \in 0..n}

\* dict.get(key, default)
DictGet(d, key, default) == IF key \in DOMAIN d THEN d[key] ELSE default

\* ---------------------------------------------------- the remote service
\* Responses the service can give to POST .../records: the status and
\* whether the body decodes as JSON (response.json() raises when it does not).
InsertResponses ==
    { [status |-> 200, json |-> TRUE],
      [status |-> 400, json |-> TRUE],
      [status |-> 500, json |-> TRUE],
      [status |-> 500, json |-> FALSE] }

\* The service stores a batch exactly when it answers 200.
ServiceStore(held, batch, resp) ==
    IF resp.status = 200 THEN held \o batch ELSE held

\* The body of GET /api/v1/collections/tweets2
ServiceInfo(held) ==
    [collection_name |-> "tweets2", document_count |-> Len(held)]

\* ---------------------------------------------------------- processTweets
\* SyzgyDBClient.get_info: no status check, the decoded body is returned.
get_info(held) == ServiceInfo(held)

\* range(document_count): the number of iterations of the skip loop
RangeLenOffByOne(n) == IF n > 1 THEN n - 1 ELSE 0
RangeLen(n) == IF n > 0 THEN n ELSE 0

\* record_id = csv_reader.line_num
RecordIdRelative(ln, dc) == ln - dc
RecordId(ln, dc) == ln

\* the record built for a row whose 6th column is `text`
MakeRecord(rid, text) ==
    [id |-> rid, text |-> text, metadata |-> [text |-> text]]

\* if len(records) == batch_size
FlushDue(recs, b) == Len(recs) = b

\* if records:   (after the loop)
FinalFlushNever(recs) == FALSE
FinalFlushDue(recs) == recs # <<>>

\* SyzgyDBClient.insert_records: prints on a non-200 status and returns
\* response.json(); the only way it fails is that decoding raising.
InsertRaises(resp) == ~resp.json

ResetRun ==
    /\ document_count' = 0
    /\ skipped' = 0
    /\ pos' = 0
    /\ line_num' = 0
    /\ records' = <<>>
    /\ recRows' = <<>>
    /\ calls' = <<>>
    /\ failedAt' = 0
    /\ startCount' = 0

InitIngest ==
    /\ source \in SeqsUpTo(Texts, MaxRows)
    /\ batch_size \in 1..MaxBatch
    /\ pc = "Idle"
    /\ document_count = 0
    /\ skipped = 0
    /\ pos = 0
    /\ line_num = 0
    /\ records = <<>>
    /\ recRows = <<>>
    /\ calls = <<>>
    /\ failedAt = 0
    /\ startCount = 0
    /\ stored = <<>>
    /\ sent = {}

\* lines 50-64: query the collection, open the file
GetInfo ==
    /\ pc = "Idle"
    /\ document_count' = DictGet(get_info(stored), "document_count", 0)
    /\ startCount' = Len(stored)
    /\ skipped' = 0
    /\ pos' = 0
    /\ line_num' = 0
    /\ records' = <<>>
    /\ recRows' = <<>>
    /\ calls' = <<>>
    /\ failedAt' = 0
    /\ pc' = "Resuming"
    /\ UNCHANGED <<source, batch_size, stored, sent>>
    /\ UNCHANGED <<varsPayload, varsFacade>>

\* lines 68-69: next(csv_reader, None), which leaves an exhausted reader alone
SkipRow ==
    /\ pc = "Resuming"
    /\ skipped < RangeLen(document_count)
    /\ skipped' = skipped + 1
    /\ IF pos < Len(source)
         THEN pos' = pos + 1 /\ line_num' = line_num + 1
         ELSE UNCHANGED <<pos, line_num>>
    /\ UNCHANGED <<source, batch_size, pc, document_count, records, recRows,
                   calls, failedAt, startCount, stored, sent>>
    /\ UNCHANGED <<varsPayload, varsFacade>>

\* the skip loop is over, the row loop begins
BeginStream ==
    /\ pc = "Resuming"
    /\ skipped = RangeLen(document_count)
    /\ pc' = "Streaming"
    /\ UNCHANGED <<source, batch_size, document_count, skipped, pos, line_num,
                   records, recRows, calls, failedAt, startCount, stored, sent>>
    /\ UNCHANGED <<varsPayload, varsFacade>>

\* lines 70-84: one iteration of `for row in csv_reader` up to the batch test
ReadRow ==
    /\ pc = "Streaming"
    /\ pos < Len(source)
    /\ pos' = pos + 1
    /\ line_num' = line_num + 1
    /\ LET record == MakeRecord(RecordId(line_num', document_count), source[pos'])
       IN  /\ records' = Append(records, record)
           /\ recRows' = Append(recRows, pos)
           /\ pc' = IF FlushDue(records', batch_size) THEN "Flushing" ELSE "Streaming"
    /\ UNCHANGED <<source, batch_size, document_count, skipped, calls, failedAt,
                   startCount, stored, sent>>
    /\ UNCHANGED <<varsPayload, varsFacade>>

\* one call client.insert_records("tweets2", records) and the service's answer
InsertCall(resp) ==
    /\ calls' = Append(calls, records)
    /\ sent' = sent \cup { <<recRows[i], records[i].id, startCount>> :
                                i \in 1..Len(records) }
    /\ stored' = ServiceStore(stored, records, resp)
    /\ failedAt' = IF failedAt = 0 /\ resp.status # 200
                     THEN Len(calls) + 1 ELSE failedAt

\* lines 85-88: the batch is full
InsertBatch ==
    /\ pc = "Flushing"
    /\ \E resp \in InsertResponses :
         /\ InsertCall(resp)
         /\ IF InsertRaises(resp)
              THEN pc' = "Failed" /\ UNCHANGED <<records, recRows>>
              ELSE pc' = "Streaming" /\ records' = <<>> /\ recRows' = <<>>
    /\ UNCHANGED <<source, batch_size, document_count, skipped, pos, line_num,
                   startCount>>
    /\ UNCHANGED <<varsPayload, varsFacade>>

\* line 70 and line 91: the reader is exhausted, test the remaining records
EndOfSource ==
    /\ pc = "Streaming"
    /\ pos = Len(source)
    /\ pc' = IF FinalFlushDue(records) THEN "Draining" ELSE "Done"
    /\ UNCHANGED <<source, batch_size, document_count, skipped, pos, line_num,
                   records, recRows, calls, failedAt, startCount, stored, sent>>
    /\ UNCHANGED <<varsPayload, varsFacade>>

\* lines 92-94: the final partial batch
InsertFinal ==
    /\ pc = "Draining"
    /\ \E resp \in InsertResponses :
         /\ InsertCall(resp)
         /\ pc' = IF InsertRaises(resp) THEN "Failed" ELSE "Done"
    /\ UNCHANGED <<source, batch_size, document_count, skipped, pos, line_num,
                   records, recRows, startCount>>
    /\ UNCHANGED <<varsPayload, varsFacade>>

Running == pc \in {"Resuming", "Streaming", "Flushing", "Draining"}

\* the process is killed between two steps: everything in memory is lost
Crash ==
    /\ Running
    /\ pc' = "Idle"
    /\ ResetRun
    /\ UNCHANGED <<source, batch_size, stored, sent>>
    /\ UNCHANGED <<varsPayload, varsFacade>>

\* the script is run again after it ended
Restart ==
    /\ pc \in {"Done", "Failed"}
    /\ pc' = "Idle"
    /\ ResetRun
    /\ UNCHANGED <<source, batch_size, stored, sent>>
    /\ UNCHANGED <<varsPayload, varsFacade>>

NextIngest ==
    \/ GetInfo
    \/ SkipRow
    \/ BeginStream
    \/ ReadRow
    \/ InsertBatch
    \/ EndOfSource
    \/ InsertFinal
    \/ Crash
    \/ Restart

PayloadIdle == op = "none" /\ args = [for |-> "none"] /\ request = <<>>

NoCall == [op |-> "none"]

FacadeIdle == srv = <<>> /\ nameKey = "name" /\ prev = NoCall /\ last = NoCall

Init == InitIngest /\ PayloadIdle /\ FacadeIdle

Next == NextIngest

Spec == Init /\ [][Next]_vars

\* ================================================= claims on processTweets
NRows == Len(source)

\* the documents of source rows M, M+1, ..., N-1 (rows counted from 0), in order
RowsFrom(M) ==
    [k \in 1..(NRows - M) |->
        [id |-> M + k, text |-> source[M + k], metadata |-> [text |-> source[M + k]]]]

IsPrefix(s, t) == Len(s) <= Len(t) /\ \A i \in 1..Len(s) : s[i] = t[i]

\* every document built so far in this run: those sent, then those pending
\* (the final batch stays in records after it was sent)
Built == Flatten(calls) \o (IF pc \in {"Done", "Failed"} THEN <<>> ELSE records)

AllInsertsSucceeded == failedAt = 0

\* C1: Resume correctness. In a run that started with document_count = M,
\* 0 <= M <= N, and whose inserts all succeeded, the documents built so far are
\* a prefix of those of rows M..N-1 in source order, no pending record comes
\* from a row below M, and once the run is Done the documents sent over all its
\* insert calls are exactly those of rows M..N-1, each once.
C1_ResumeCorrect ==
    (pc # "Idle" /\ AllInsertsSucceeded /\ startCount <= NRows) =>
        /\ IsPrefix(Built, RowsFrom(startCount))
        /\ \A i \in 1..Len(recRows) : recRows[i] >= startCount
        /\ pc = "Done" => Flatten(calls) = RowsFrom(startCount)

C1_Witness ==
    /\ pc = "Done"
    /\ AllInsertsSucceeded
    /\ startCount > 0
    /\ startCount < NRows
    /\ Flatten(calls) = RowsFrom(startCount)
    /\ Len(calls) >= 1

StoredCopies(row) == Cardinality({ j \in 1..Len(stored) : stored[j].id = row + 1 })

\* C2: Across repeated runs (ended by completion, by a crash or by an insert
\* failure) no source row is stored more than once, and once a run reaches
\* Done every row 0..N-1 is stored exactly once.
C2_NoReinsertAndComplete ==
    /\ \A row \in 0..(NRows - 1) : StoredCopies(row) <= 1
    /\ pc = "Done" => \A row \in 0..(NRows - 1) : StoredCopies(row) = 1

\* C3: After an insert call of the run got a non-success response the run is
\* in the terminal state Failed: no further insert call has been issued, no
\* further row has been read, and the run is not Done.
C3_HaltsOnInsertFailure ==
    failedAt > 0 =>
        /\ pc = "Failed"
        /\ Len(calls) = failedAt

CeilDiv(n, b) == (n + b - 1) \div b

\* C4: Batch flushing. No insert call carries an empty batch or more than B
\* documents; a run whose inserts all succeeded and that is Done, with R rows
\* remaining after the skip, has issued exactly ceil(R/B) calls, every call
\* but the last with exactly B documents and the last with R mod B documents,
\* or B when R is a positive multiple of B.
C4_BatchFlushing ==
    /\ \A i \in 1..Len(calls) : Len(calls[i]) \in 1..batch_size
    /\ (pc = "Done" /\ AllInsertsSucceeded /\ startCount <= NRows) =>
         LET R == NRows - startCount
             n == Len(calls)
         IN  /\ n = CeilDiv(R, batch_size)
             /\ \A i \in 1..(n - 1) : Len(calls[i]) = batch_size
             /\ n > 0 => Len(calls[n]) =
                            IF R % batch_size = 0 THEN batch_size ELSE R % batch_size

C4_Witness ==
    /\ pc = "Done"
    /\ AllInsertsSucceeded
    /\ batch_size >= 2
    /\ Len(calls) >= 2
    /\ Len(calls[Len(calls)]) < batch_size

\* C10: Row-derived ids are stable and unique across runs. Every document sent
\* for source row i carries the id i + 1, whatever the skip offset of the run
\* that sent it; so two different rows are never sent under the same id and
\* the same row is never sent under two different ids.
C10_StableUniqueIds ==
    /\ \A p \in sent : p[2] = p[1] + 1
    /\ \A p, q \in sent : (p[1] = q[1]) <=> (p[2] = q[2])

C10_Witness ==
    \E p, q \in sent : p[1] = q[1] /\ p[3] # q[3] /\ p[1] > 0

\* =========================================================== Python values
\* A Python value is tagged with its type: None, int, str, list, dict differ
\* even when empty or zero.
PyNone == [t |-> "None"]
PyInt(n) == [t |-> "int", v |-> n]
PyStr(x) == [t |-> "str", v |-> x]
PyList(x) == [t |-> "list", v |-> x]
PyDict(d) == [t |-> "dict", v |-> d]

EmptyDict == PyDict(<<>>)

\* bool(v)
Truthy(v) ==
    CASE v.t = "None" -> FALSE
      [] v.t = "int" -> v.v # 0
      [] v.t = "str" -> v.v # ""
      [] v.t = "list" -> v.v # <<>>
      [] v.t = "dict" -> DOMAIN v.v # {}

\* v is not None
IsNotNone(v) == v # PyNone

\* {k: v for k, v in d.items() if keep(v)}
DictFilter(d, keep(_)) == [k \in {x \in DOMAIN d : keep(d[x])} |-> d[k]]

\* ------------------------------------------------ syzgy/models.py: Document
DocFields == {"id", "vector", "text", "metadata"}

VectorValues == {PyNone, PyList(<<1>>)}
TextValues == {PyNone, PyStr(""), PyStr("t")}
MetadataValues == {PyNone, EmptyDict, PyDict([category |-> PyStr("test")])}

\* the Document values: id always an int, the other three fields optional
Documents ==
    [id : {PyInt(1), PyInt(2)}, vector : VectorValues, text : TextValues,
     metadata : MetadataValues]

\* dataclasses.asdict(self)
asdict(doc) == [k \in DocFields |-> doc[k]]

\* Document.to_dict
to_dict(doc) == DictFilter(asdict(doc), IsNotNone)

RecordsPath(name) == <<"/api/v1/collections/", name, "/records">>
SearchPath(name) == <<"/api/v1/collections/", name, "/search">>

\* Collection.insert_documents: the request it hands to SyzgyClient._request
insert_documents_request(name, documents) ==
    [method |-> "POST", path |-> RecordsPath(name),
     json |-> PyList([i \in 1..Len(documents) |-> PyDict(to_dict(documents[i]))])]

\* SyzgyDBClient.insert_record: the request it posts
insert_record_request(name, record_id, text, vector, metadata) ==
    [method |-> "POST", path |-> RecordsPath(name),
     json |-> PyDict([id |-> record_id,
                      text |-> text,
                      vector |-> vector,
                      metadata |-> IF Truthy(metadata) THEN metadata ELSE EmptyDict])]

\* ------------------------------------------------------- Collection.search
SearchParams ==
    {"vector", "text", "k", "radius", "limit", "offset", "precision", "filter"}

SearchArgs ==
    [vector : VectorValues,
     text : {PyNone, PyStr(""), PyStr("q")},
     k : {PyNone, PyInt(0), PyInt(2)},
     radius : {PyNone, PyInt(0), PyInt(1)},
     limit : {PyNone, PyInt(0), PyInt(5)},
     offset : {PyNone, PyInt(0), PyInt(1)},
     precision : {PyNone, PyStr(""), PyStr("exact")},
     filter : {PyNone, PyStr(""), PyStr("f")}]

\* lines 62-72: the dict of all eight parameters, then the None ones dropped
search_data_truthy(a) == DictFilter([k \in SearchParams |-> a[k]], Truthy)
search_data(a) == DictFilter([k \in SearchParams |-> a[k]], IsNotNone)

search_request(name, a) ==
    [method |-> "POST", path |-> SearchPath(name), json |-> PyDict(search_data(a))]

\* ------------------------------------------------- one call, one request
\* The caller's arguments are drawn first; the call made with them follows.
InsertInputs == [for : {"insert"}, documents : SeqsUpTo(Documents, MaxDocsPerCall)]
SearchInputs == [for : {"search"}, params : SearchArgs]

InitPayload ==
    /\ op = "none"
    /\ args \in InsertInputs \cup SearchInputs
    /\ request = <<>>

\* collection.insert_documents(documents)
InsertDocuments ==
    /\ op = "none"
    /\ args.for = "insert"
    /\ op' = "insert_documents"
    /\ request' = insert_documents_request("c", args.documents)
    /\ UNCHANGED args
    /\ UNCHANGED <<varsIngest, varsFacade>>

\* client.insert_record("c", id, text=..., vector=..., metadata=...), the
\* single-record path, with the fields of the one document passed
InsertRecord ==
    /\ op = "none"
    /\ args.for = "insert"
    /\ Len(args.documents) = 1
    /\ LET doc == args.documents[1]
       IN  request' = insert_record_request("c", doc.id, doc.text, doc.vector,
                                            doc.metadata)
    /\ op' = "insert_record"
    /\ UNCHANGED args
    /\ UNCHANGED <<varsIngest, varsFacade>>

\* collection.search(**params)
Search ==
    /\ op = "none"
    /\ args.for = "search"
    /\ op' = "search"
    /\ request' = search_request("c", args.params)
    /\ UNCHANGED args
    /\ UNCHANGED <<varsIngest, varsFacade>>

NextPayload == InsertRecord \/ InsertDocuments \/ Search

IngestIdle ==
    /\ source = <<>>
    /\ batch_size = 1
    /\ pc = "Idle"
    /\ document_count = 0
    /\ skipped = 0
    /\ pos = 0
    /\ line_num = 0
    /\ records = <<>>
    /\ recRows = <<>>
    /\ calls = <<>>
    /\ failedAt = 0
    /\ startCount = 0
    /\ stored = <<>>
    /\ sent = {}

PayloadInit == IngestIdle /\ InitPayload /\ FacadeIdle

SpecPayload == PayloadInit /\ [][NextPayload]_vars

\* ================================================ claims on request bodies
\* the entries of an insert request body, one per document passed
BodyEntries ==
    IF request.json.t = "dict"
      THEN <<request.json.v>>
      ELSE [i \in 1..Len(request.json.v) |-> request.json.v[i].v]

SetFields(doc) == {"id"} \cup {f \in {"vector", "text", "metadata"} : doc[f] # PyNone}

\* C6: On every insert path (Collection.insert_documents and
\* SyzgyDBClient.insert_record) the entry serialized for a document has
\* exactly the key id and the keys of the fields that are set, each with the
\* document's value: an unset vector, text or metadata leaves no key behind.
C6_InsertOmitsUnset ==
    op \in {"insert_documents", "insert_record"} =>
        LET docs == args.documents
        IN  /\ Len(BodyEntries) = Len(docs)
            /\ \A i \in 1..Len(docs) :
                 /\ DOMAIN BodyEntries[i] = SetFields(docs[i])
                 /\ \A f \in SetFields(docs[i]) : BodyEntries[i][f] = docs[i][f]

Supplied(a) == {p \in SearchParams : a[p] # PyNone}

\* C7: The keys of a search request body are exactly the parameters the
\* caller supplied (passed something other than None), each with the value
\* supplied; a supplied 0 or "" is kept and an unsupplied parameter never
\* appears.
C7_SearchBodyKeys ==
    op = "search" =>
        /\ request.json.t = "dict"
        /\ DOMAIN request.json.v = Supplied(args.params)
        /\ \A p \in Supplied(args.params) : request.json.v[p] = args.params[p]

C7_Witness ==
    /\ op = "search"
    /\ args.params.k = PyInt(0)
    /\ args.params.text = PyStr("")
    /\ args.params.vector = PyNone
    /\ args.params.filter = PyNone
    /\ {"k", "text"} \subseteq DOMAIN request.json.v
    /\ request.json.v.k = PyInt(0)
    /\ "vector" \notin DOMAIN request.json.v

\* ============================================ the service behind the clients
CollNames == {"books", "missing"}

\* the names callers create a collection under
CreatedNames == {"books"}

CollectionsPath == <<"/api/v1/collections">>
CollectionPath(name) == <<"/api/v1/collections/", name>>
RecordPath(name, id) == <<"/api/v1/collections/", name, "/records/", id>>
MetadataPath(name, id) == RecordPath(name, id) \o <<"/metadata">>
IdsPath(name) == <<"/api/v1/collections/", name, "/ids">>

\* The endpoint a request addresses, by method and path (spec section 6).
Route(req) ==
    CASE Len(req.path) = 1 /\ req.method = "POST" -> "create"
      [] Len(req.path) = 1 /\ req.method = "GET" -> "list"
      [] Len(req.path) = 2 /\ req.method = "GET" -> "get"
      [] Len(req.path) = 2 /\ req.method = "DELETE" -> "drop"
      [] Len(req.path) = 3 /\ req.path[3] = "/records" -> "insert"
      [] Len(req.path) = 3 /\ req.path[3] = "/search" -> "search"
      [] Len(req.path) = 3 /\ req.path[3] = "/ids" -> "ids"
      [] Len(req.path) = 4 -> "delete_record"
      [] Len(req.path) = 5 -> "update_metadata"

\* The collection a request names.
Target(req) ==
    IF Len(req.path) >= 2 THEN req.path[2]
    ELSE IF req.method = "POST" THEN req.json.v.name.v ELSE ""

\* The description of a collection as the service reports it: its name under
\* `key`, then document_count, dimension_count, quantization, distance_function.
InfoBody(key, name, c) ==
    [k \in {key, "document_count", "dimension_count", "quantization",
            "distance_function"} |->
        CASE k = key -> name
          [] k = "document_count" -> c.document_count
          [] k = "dimension_count" -> c.dimension_count
          [] k = "quantization" -> c.quantization
          [] k = "distance_function" -> c.distance_function]

\* the hosted collections in a fixed order
RECURSIVE SetToSeq(_)
SetToSeq(S) ==
    IF S = {} THEN <<>>
    ELSE LET x == CHOOSE y \in S : TRUE IN <<x>> \o SetToSeq(S \ {x})

OkResponse(status, body) ==
    [status |-> status, text |-> "{...}", decodes |-> TRUE, body |-> body]

\* An error answer: a JSON error object or a plain-text body.
ErrResponses(status) ==
    { [status |-> status, text |-> "{\"error\": \"failed\"}", decodes |-> TRUE,
       body |-> [error |-> "failed"]],
      [status |-> status, text |-> "failed", decodes |-> FALSE, body |-> <<>>] }

\* number of documents in the body of an insert
NDocs(json) == IF json.t = "list" THEN Len(json.v) ELSE 1

SearchHit(i) == [id |-> i, metadata |-> [category |-> "test"], distance |-> 0]

Ack == [message |-> "ok"]

WithCollection(s, name, c) ==
    [n \in DOMAIN s \cup {name} |-> IF n = name THEN c ELSE s[n]]

\* What the service can answer to a request in state s: the answer and its next
\* state. Any request may be refused with 500; an unknown collection gives 404,
\* creating an existing one 400.
ServiceAnswers(s, key, req) ==
    LET route == Route(req)
        name == Target(req)
        known == name \in DOMAIN s
        refuse(status) == { [response |-> r, srv |-> s] : r \in ErrResponses(status) }
        ok(status, body, s2) == { [response |-> OkResponse(status, body), srv |-> s2] }
        success ==
          CASE route = "create" ->
                 IF known THEN refuse(400)
                 ELSE LET c == [document_count |-> 0,
                                dimension_count |-> req.json.v.vector_size.v,
                                quantization |-> req.json.v.quantization.v,
                                distance_function |-> req.json.v.distance_function.v]
                      IN  ok(201, InfoBody(key, name, c), WithCollection(s, name, c))
            [] route = "list" ->
                 LET names == SetToSeq(DOMAIN s)
                 IN  ok(200, [i \in 1..Len(names) |-> InfoBody(key, names[i], s[names[i]])], s)
            [] route = "get" ->
                 IF known THEN ok(200, InfoBody(key, name, s[name]), s) ELSE refuse(404)
            [] route = "drop" ->
                 IF known THEN ok(200, Ack, [n \in DOMAIN s \ {name} |-> s[n]])
                 ELSE refuse(404)
            [] route = "insert" ->
                 IF known /\ s[name].document_count + NDocs(req.json) <= MaxStored
                   THEN ok(200, Ack,
                           WithCollection(s, name,
                               [s[name] EXCEPT !.document_count = @ + NDocs(req.json)]))
                   ELSE IF known THEN {} ELSE refuse(404)
            [] route = "search" ->
                 IF known
                   THEN ok(200, [results |-> [i \in 1..s[name].document_count |-> SearchHit(i)]], s)
                   ELSE refuse(404)
            [] route = "ids" ->
                 IF known THEN ok(200, [i \in 1..s[name].document_count |-> i], s)
                 ELSE refuse(404)
            [] route = "delete_record" ->
                 IF known /\ s[name].document_count > 0
                   THEN ok(200, Ack,
                           WithCollection(s, name,
                               [s[name] EXCEPT !.document_count = @ - 1]))
                   ELSE refuse(404)
            [] route = "update_metadata" ->
                 IF known /\ s[name].document_count > 0 THEN ok(200, Ack, s)
                 ELSE refuse(404)
    IN  success \cup refuse(500)

\* ======================================================= the Python clients
Return(v) == [kind |-> "return", value |-> v]
Raise(e) == [kind |-> "raise", exc |-> e]

DigitChars == <<"0", "1", "2", "3", "4", "5", "6", "7", "8", "9">>

\* str(n) for n >= 0, as its characters
RECURSIVE Digits(_)
Digits(n) ==
    IF n < 10 THEN <<DigitChars[n + 1]>>
    ELSE Digits(n \div 10) \o <<DigitChars[(n % 10) + 1]>>

\* f"HTTP {response.status_code}: {response.text}", as the pieces it joins
HttpMessage(status, text) == <<"HTTP ">> \o Digits(status) \o <<": ", text>>

\* SyzgyException(message): built from the one positional argument
SyzgyException(message) == [type |-> "SyzgyException", args |-> <<message>>]

JSONDecodeError == [type |-> "JSONDecodeError", args |-> <<>>]
TypeError == [type |-> "TypeError", args |-> <<>>]
KeyError == [type |-> "KeyError", args |-> <<>>]

\* response.json()
ResponseJson(resp) == IF resp.decodes THEN Return(resp.body) ELSE Raise(JSONDecodeError)

\* SyzgyClient._request, given the response requests.request returned
ClientRequest(resp) ==
    IF resp.status >= 400
      THEN Raise(SyzgyException(HttpMessage(resp.status, resp.text)))
      ELSE ResponseJson(resp)

CollectionParams ==
    {"collection_name", "document_count", "dimension_count", "quantization",
     "distance_function"}

\* Collection(client, **kwargs): the keywords must be exactly the parameters
\* of Collection.__init__; the object gets the identity oid
CollectionInit(kwargs, oid) ==
    IF DOMAIN kwargs = CollectionParams
      THEN Return([t |-> "Collection", oid |-> oid,
                   collection_name |-> kwargs.collection_name,
                   document_count |-> kwargs.document_count,
                   dimension_count |-> kwargs.dimension_count,
                   quantization |-> kwargs.quantization,
                   distance_function |-> kwargs.distance_function])
      ELSE Raise(TypeError)

\* a == b for two Collection objects: the class defines no __eq__, so this is
\* object identity
CollectionEq(a, b) == a.oid = b.oid

SearchResultParams == {"id", "metadata", "distance"}

\* SearchResult(**item): a dataclass
SearchResultInit(item) ==
    IF DOMAIN item = SearchResultParams
      THEN Return([t |-> "SearchResult", id |-> item.id, metadata |-> item.metadata,
                   distance |-> item.distance])
      ELSE Raise(TypeError)

\* [f(x) for x in xs]: the first exception ends it
Comprehension(outs) ==
    IF \E i \in 1..Len(outs) : outs[i].kind = "raise"
      THEN outs[CHOOSE i \in 1..Len(outs) :
                  /\ outs[i].kind = "raise"
                  /\ \A j \in 1..(i - 1) : outs[j].kind = "return"]
      ELSE Return([t |-> "list", v |-> [i \in 1..Len(outs) |-> outs[i].value]])

\* the n smallest identities no live object has
RECURSIVE Smallest(_, _)
Smallest(S, n) ==
    IF n = 0 THEN <<>>
    ELSE LET m == CHOOSE x \in S : \A y \in S : x <= y
         IN  <<m>> \o Smallest(S \ {m}, n - 1)

LiveOids == IF last.op = "none" THEN {} ELSE last.oids

FreshOids(n) == Smallest((0..(Cardinality(LiveOids) + n)) \ LiveOids, n)

Call(client, opname, name, req, resp, outcome, oids) ==
    [client |-> client, op |-> opname, name |-> name, requests |-> <<req>>,
     response |-> resp, outcome |-> outcome, oids |-> oids]

Step(call, s2) ==
    /\ prev' = last
    /\ last' = call
    /\ srv' = s2
    /\ UNCHANGED nameKey
    /\ UNCHANGED <<varsIngest, varsPayload>>

NewOids(out) == IF out.kind = "return" THEN {out.value.oid} ELSE {}

CreateArgs ==
    { [vector_size |-> 384, quantization |-> 64, distance_function |-> "cosine"] }

create_collection_request(name, a) ==
    [method |-> "POST", path |-> CollectionsPath,
     json |-> PyDict([name |-> PyStr(name),
                      vector_size |-> PyInt(a.vector_size),
                      quantization |-> PyInt(a.quantization),
                      distance_function |-> PyStr(a.distance_function)])]

NoBody == PyNone

\* ---------------------------------------------------------- SyzgyClient
CreateCollection ==
    \E name \in CreatedNames, a \in CreateArgs :
      LET req == create_collection_request(name, a)
      IN  \E ans \in ServiceAnswers(srv, nameKey, req) :
            LET r == ClientRequest(ans.response)
                out == IF r.kind = "raise" THEN r
                       ELSE CollectionInit(r.value, FreshOids(1)[1])
            IN  Step(Call("SyzgyClient", "create_collection", name, req,
                          ans.response, out, NewOids(out)), ans.srv)

GetCollections ==
    LET req == [method |-> "GET", path |-> CollectionsPath, json |-> NoBody]
    IN  \E ans \in ServiceAnswers(srv, nameKey, req) :
          LET r == ClientRequest(ans.response)
              n == IF r.kind = "raise" THEN 0 ELSE Len(r.value)
              ids == FreshOids(n)
              out == IF r.kind = "raise" THEN r
                     ELSE Comprehension([i \in 1..n |-> CollectionInit(r.value[i], ids[i])])
          IN  Step(Call("SyzgyClient", "get_collections", "", req, ans.response, out,
                        IF out.kind = "return"
                          THEN {out.value.v[i].oid : i \in 1..n} ELSE {}), ans.srv)

GetCollection ==
    \E name \in CollNames :
      LET req == [method |-> "GET", path |-> CollectionPath(name), json |-> NoBody]
      IN  \E ans \in ServiceAnswers(srv, nameKey, req) :
            LET r == ClientRequest(ans.response)
                out == IF r.kind = "raise" THEN r
                       ELSE CollectionInit(r.value, FreshOids(1)[1])
            IN  Step(Call("SyzgyClient", "get_collection", name, req,
                          ans.response, out, NewOids(out)), ans.srv)

\* The calls that return what the transport returns, one per answer of the
\* service: SyzgyClient._request for SyzgyClient and Collection,
\* response.json() for SyzgyDBClient.
Plain(client, opname, name, req) ==
    { [call |-> Call(client, opname, name, req, ans.response,
                     IF client = "SyzgyClient" THEN ClientRequest(ans.response)
                     ELSE ResponseJson(ans.response), {}),
       srv |-> ans.srv] : ans \in ServiceAnswers(srv, nameKey, req) }

DeleteCollection ==
    \E name \in CollNames :
      \E x \in Plain("SyzgyClient", "delete_collection", name,
                     [method |-> "DELETE", path |-> CollectionPath(name),
                      json |-> NoBody]) :
        Step(x.call, x.srv)

\* ------------------------------------------------------------- Collection
SomeDocument ==
    [id |-> PyInt(1), vector |-> PyNone, text |-> PyStr("t"), metadata |-> PyNone]

CollInsertDocuments ==
    \E name \in CollNames :
      \E x \in Plain("SyzgyClient", "insert_documents", name,
                     insert_documents_request(name, <<SomeDocument>>)) :
        Step(x.call, x.srv)

UpdateDocumentMetadata ==
    \E name \in CollNames :
      \E x \in Plain("SyzgyClient", "update_document_metadata", name,
                     [method |-> "PUT", path |-> MetadataPath(name, 1),
                      json |-> PyDict([metadata |->
                                          PyDict([category |-> PyStr("test")])])]) :
        Step(x.call, x.srv)

DeleteDocument ==
    \E name \in CollNames :
      \E x \in Plain("SyzgyClient", "delete_document", name,
                     [method |-> "DELETE", path |-> RecordPath(name, 1),
                      json |-> NoBody]) :
        Step(x.call, x.srv)

TextQuery ==
    [vector |-> PyNone, text |-> PyStr("q"), k |-> PyInt(2), radius |-> PyNone,
     limit |-> PyNone, offset |-> PyNone, precision |-> PyNone, filter |-> PyNone]

CollSearch ==
    \E name \in CollNames :
      LET req == search_request(name, TextQuery)
      IN  \E ans \in ServiceAnswers(srv, nameKey, req) :
            LET r == ClientRequest(ans.response)
                out == IF r.kind = "raise" THEN r
                       ELSE IF "results" \notin DOMAIN r.value THEN Raise(KeyError)
                       ELSE Comprehension([i \in 1..Len(r.value.results) |->
                                              SearchResultInit(r.value.results[i])])
            IN  Step(Call("SyzgyClient", "search", name, req, ans.response, out, {}),
                     ans.srv)

GetDocumentIds ==
    \E name \in CollNames :
      \E x \in Plain("SyzgyClient", "get_document_ids", name,
                     [method |-> "GET", path |-> IdsPath(name), json |-> NoBody]) :
        Step(x.call, x.srv)

\* ----------------------------------------------------------- SyzgyDBClient
DbCreateCollection ==
    \E name \in CreatedNames, a \in CreateArgs :
      \E x \in Plain("SyzgyDBClient", "create_collection", name,
                     create_collection_request(name, a)) :
        Step(x.call, x.srv)

DbDeleteCollection ==
    \E name \in CollNames :
      \E x \in Plain("SyzgyDBClient", "delete_collection", name,
                     [method |-> "DELETE", path |-> CollectionPath(name),
                      json |-> NoBody]) :
        Step(x.call, x.srv)

DbGetInfo ==
    \E name \in CollNames :
      \E x \in Plain("SyzgyDBClient", "get_info", name,
                     [method |-> "GET", path |-> CollectionPath(name),
                      json |-> NoBody]) :
        Step(x.call, x.srv)

DbInsertRecord ==
    \E name \in CollNames :
      \E x \in Plain("SyzgyDBClient", "insert_record", name,
                     insert_record_request(name, PyInt(1), PyStr("t"), PyNone,
                                           PyNone)) :
        Step(x.call, x.srv)

DbInsertRecords ==
    \E name \in CollNames :
      \E x \in Plain("SyzgyDBClient", "insert_records", name,
                     [method |-> "POST", path |-> RecordsPath(name),
                      json |-> PyList(<<MakeRecord(1, "a")>>)]) :
        Step(x.call, x.srv)

InitFacade ==
    /\ srv = <<>>
    /\ nameKey \in {"name", "collection_name"}
    /\ prev = NoCall
    /\ last = NoCall

NextFacade ==
    \/ DbGetInfo
    \/ DbCreateCollection
    \/ DbDeleteCollection
    \/ DbInsertRecord
    \/ DbInsertRecords
    \/ CreateCollection
    \/ GetCollections
    \/ GetCollection
    \/ DeleteCollection
    \/ CollInsertDocuments
    \/ UpdateDocumentMetadata
    \/ DeleteDocument
    \/ CollSearch
    \/ GetDocumentIds

FacadeInit == IngestIdle /\ PayloadIdle /\ InitFacade

SpecFacade == FacadeInit /\ [][NextFacade]_vars

\* ============================================== claims on the client calls
ErrorAnswered == last.op # "none" /\ last.response.status >= 400

\* C5: Every client operation answered with a status >= 400 fails with an
\* error that carries the status code and the raw response body as values of
\* its own (status_code, body), returns no result, and has issued exactly one
\* request.
C5_ErrorCarriesStatusAndBody ==
    ErrorAnswered =>
        /\ last.outcome.kind = "raise"
        /\ {"status_code", "body"} \subseteq DOMAIN last.outcome.exc
        /\ last.outcome.exc.status_code = last.response.status
        /\ last.outcome.exc.body = last.response.text
        /\ Len(last.requests) = 1

SameDescription(a, b) ==
    /\ a.collection_name = b.collection_name
    /\ a.document_count = b.document_count
    /\ a.dimension_count = b.dimension_count
    /\ a.quantization = b.quantization
    /\ a.distance_function = b.distance_function

\* two get_collection calls for the same name, one right after the other,
\* both answered with the description of the collection
TwoGets ==
    /\ prev.op = "get_collection" /\ last.op = "get_collection"
    /\ prev.name = last.name
    /\ prev.response.status < 400 /\ last.response.status < 400

\* C8: Idempotence of get_collection. Two calls of get_collection(name) for an
\* existing collection with no mutation between them both return a
\* Collection, the two have the same name, document_count, dimension_count,
\* quantization and distance_function, and they compare equal (a == b).
C8_GetCollectionIdempotent ==
    TwoGets =>
        /\ prev.outcome.kind = "return" /\ last.outcome.kind = "return"
        /\ SameDescription(prev.outcome.value, last.outcome.value)
        /\ CollectionEq(prev.outcome.value, last.outcome.value)

\* a create_collection of SyzgyClient answered with a success status and the
\* description of the created collection, its name under the key "name"
CreatedWithNameKey ==
    /\ last.op = "create_collection" /\ last.client = "SyzgyClient"
    /\ last.response.status < 400
    /\ DOMAIN last.response.body =
         {"name", "document_count", "dimension_count", "quantization",
          "distance_function"}

\* C9: create_collection answered with a success status and a body that
\* describes the collection with its name under "name" returns a Collection
\* whose attribute name is the requested name and whose other fields are
\* those of the response; it does not fail.
C9_CreateReturnsNamedCollection ==
    CreatedWithNameKey =>
        /\ last.outcome.kind = "return"
        /\ last.outcome.value.t = "Collection"
        /\ "name" \in DOMAIN last.outcome.value
        /\ last.outcome.value.name = last.name
        /\ last.outcome.value.document_count = last.response.body.document_count
        /\ last.outcome.value.dimension_count = last.response.body.dimension_count
        /\ last.outcome.value.quantization = last.response.body.quantization
        /\ last.outcome.value.distance_function = last.response.body.distance_function

====
